---- MODULE Spec2Model ----
(***************************************************************************)
(* Model of Modules/ESP.py: the Motor axis controller (command building,   *)
(* retrying transport I/O, error-code decoding, bounded moves) and the     *)
(* Polarizer composite of two Motors.                                      *)
(*                                                                         *)
(* Text is a sequence of one-character strings.  A Python value is a       *)
(* tagged record.  A float is a double of IEEE 754: float() rounds the     *)
(* decimal text to the nearest double, + rounds the exact sum, and an      *)
(* f-string puts the shortest decimal text that reads back as the same     *)
(* double.  Text is ASCII.                                                 *)
(*                                                                         *)
(* Every method of the program is one action.  The behaviour of the        *)
(* transport during a call is an input of the action: faults is the        *)
(* script of the next transport calls (TRUE: the call raises VisaIOError;  *)
(* past the end of the script calls succeed), errResp is the text the      *)
(* controller answers to a query of the error code, posResp the text it    *)
(* answers to a position query.  The instrument of a Motor is an input of  *)
(* its constructor: a resource of the transport, or the str that           *)
(* ESP.__init__ hands out in testflight mode, which has no write and no    *)
(* query.                                                                  *)
(*                                                                         *)
(* The program is single-threaded and every call completes before the      *)
(* next one starts.  motor and polarizer are the objects that exist.  op   *)
(* is the call that has just completed (Idle between calls), ret its       *)
(* return value, exc the exception it raised ("" for none) and trace the   *)
(* transport calls and log reports it made, in order.                      *)
(***************************************************************************)
EXTENDS Integers, Sequences, FiniteSets, TLC

VARIABLES motor, polarizer, op, ret, exc, trace

vars == <<motor, polarizer, op, ret, exc, trace>>

(***************************************************************************)
(* Bounds of the model.                                                    *)
(***************************************************************************)
MaxFaults == 4

\* Let([x \in {e} |-> B]) is B with x bound to the value of e, computed
\* once
Let(f) == f[CHOOSE x \in DOMAIN f : TRUE]

(***************************************************************************)
(* Natural numbers of any size.  TLC's integers have 32 bits and a float   *)
(* of Python has a mantissa of 53, so the arithmetic of floats is done on  *)
(* naturals held as sequences of limbs: the number is the sum of           *)
(* a[i] * LimbBase^(i-1), every limb is in 0..LimbBase-1, the last limb    *)
(* is not 0, and << >> is zero.                                            *)
(***************************************************************************)
LimbBits == 15
LimbBase == 32768

\* a without the zero limbs at its high end
BigTrim(a) ==
    IF \A i \in 1..Len(a) : a[i] = 0 THEN << >>
    ELSE SubSeq(a, 1, CHOOSE i \in 1..Len(a) :
                        a[i] # 0 /\ \A j \in (i + 1)..Len(a) : a[j] = 0)

RECURSIVE BigOfNat(_)
BigOfNat(n) ==
    IF n = 0 THEN << >> ELSE <<n % LimbBase>> \o BigOfNat(n \div LimbBase)

Limb(a, i) == IF i <= Len(a) THEN a[i] ELSE 0

\* The limbs lo..hi of a sum, a difference, a product and a quotient, with
\* the carry that enters at one end and the carry that leaves at the
\* other.  A range is done as its two halves, one after the other, so
\* that the definitions nest no deeper than the logarithm of the length.
RECURSIVE BigAddRange(_, _, _, _, _)
BigAddRange(a, b, lo, hi, carry) ==
    IF lo > hi THEN [s |-> << >>, c |-> carry]
    ELSE IF lo = hi
    THEN [s |-> <<(Limb(a, lo) + Limb(b, lo) + carry) % LimbBase>>,
          c |-> (Limb(a, lo) + Limb(b, lo) + carry) \div LimbBase]
    ELSE Let([x \in {BigAddRange(a, b, lo, (lo + hi) \div 2, carry)} |->
         Let([y \in {BigAddRange(a, b, ((lo + hi) \div 2) + 1, hi, x.c)} |->
           [s |-> x.s \o y.s, c |-> y.c]])])

BigAdd(a, b) ==
    Let([r \in {BigAddRange(a, b, 1, IF Len(a) > Len(b) THEN Len(a) ELSE Len(b), 0)} |-> IF r.c = 0 THEN r.s ELSE Append(r.s, r.c)])

RECURSIVE BigSubRange(_, _, _, _, _)
BigSubRange(a, b, lo, hi, borrow) ==
    IF lo > hi THEN [s |-> << >>, c |-> borrow]
    ELSE IF lo = hi
    THEN [s |-> <<(a[lo] - Limb(b, lo) - borrow + LimbBase) % LimbBase>>,
          c |-> IF a[lo] - Limb(b, lo) - borrow < 0 THEN 1 ELSE 0]
    ELSE Let([x \in {BigSubRange(a, b, lo, (lo + hi) \div 2, borrow)} |->
         Let([y \in {BigSubRange(a, b, ((lo + hi) \div 2) + 1, hi, x.c)} |->
           [s |-> x.s \o y.s, c |-> y.c]])])

\* a - b for a >= b
BigSub(a, b) ==
    Let([r \in {BigSubRange(a, b, 1, Len(a), 0)} |-> BigTrim(r.s)])

\* -1, 0 or 1 as a < b, a = b or a > b
BigCmp(a, b) ==
    IF Len(a) # Len(b) THEN (IF Len(a) < Len(b) THEN -1 ELSE 1)
    ELSE IF a = b THEN 0
    ELSE Let([i \in {CHOOSE i \in 1..Len(a) :
                /\ a[i] # b[i]
                /\ \A j \in (i + 1)..Len(a) : a[j] = b[j]} |->
           IF a[i] < b[i] THEN -1 ELSE 1])

RECURSIVE BigMulRange(_, _, _, _, _)
BigMulRange(a, k, lo, hi, carry) ==
    IF lo > hi THEN [s |-> << >>, c |-> carry]
    ELSE IF lo = hi
    THEN [s |-> <<(a[lo] * k + carry) % LimbBase>>,
          c |-> (a[lo] * k + carry) \div LimbBase]
    ELSE Let([x \in {BigMulRange(a, k, lo, (lo + hi) \div 2, carry)} |->
         Let([y \in {BigMulRange(a, k, ((lo + hi) \div 2) + 1, hi, x.c)} |->
           [s |-> x.s \o y.s, c |-> y.c]])])

\* a * k + c for 0 <= k <= LimbBase and 0 <= c < LimbBase
BigMulAdd(a, k, c) ==
    Let([r \in {BigMulRange(a, k, 1, Len(a), c)} |->
      BigTrim(IF r.c = 0 THEN r.s ELSE Append(r.s, r.c))])

BigMulSmall(a, k) == BigMulAdd(a, k, 0)

\* the division goes from the high limb to the low one; c is the remainder
RECURSIVE BigDivRange(_, _, _, _, _)
BigDivRange(a, k, lo, hi, r) ==
    IF lo > hi THEN [s |-> << >>, c |-> r]
    ELSE IF lo = hi
    THEN [s |-> <<(r * LimbBase + a[lo]) \div k>>,
          c |-> (r * LimbBase + a[lo]) % k]
    ELSE Let([y \in {BigDivRange(a, k, ((lo + hi) \div 2) + 1, hi, r)} |->
         Let([x \in {BigDivRange(a, k, lo, (lo + hi) \div 2, y.c)} |->
           [s |-> x.s \o y.s, c |-> x.c]])])

\* quotient and remainder of a by k, for 0 < k <= LimbBase
BigDivSmall(a, k) ==
    Let([d \in {BigDivRange(a, k, 1, Len(a), 0)} |->
      [q |-> BigTrim(d.s), r |-> d.c]])

RECURSIVE Pow(_, _)
Pow(b, k) == IF k = 0 THEN 1 ELSE b * Pow(b, k - 1)

\* the number of bits of a small natural
RECURSIVE BitLen(_)
BitLen(n) == IF n = 0 THEN 0 ELSE 1 + BitLen(n \div 2)

\* the number of zero bits at the low end of a small natural that is not 0
RECURSIVE LowZeros(_)
LowZeros(n) == IF n % 2 = 1 THEN 0 ELSE 1 + LowZeros(n \div 2)

BigBitLen(a) ==
    IF a = << >> THEN 0
    ELSE LimbBits * (Len(a) - 1) + BitLen(a[Len(a)])

\* the number of zero bits at the low end of a, which is not zero
BigLowZeros(a) ==
    Let([i \in {CHOOSE i \in 1..Len(a) : a[i] # 0 /\ \A j \in 1..(i - 1) : a[j] = 0} |-> LimbBits * (i - 1) + LowZeros(a[i])])

\* a * 2^n
BigShl(a, n) ==
    IF a = << >> THEN a
    ELSE [i \in 1..(n \div LimbBits) |-> 0]
             \o BigMulSmall(a, Pow(2, n % LimbBits))

\* a \div 2^n
BigShr(a, n) ==
    IF n \div LimbBits >= Len(a) THEN << >>
    ELSE BigDivSmall(SubSeq(a, (n \div LimbBits) + 1, Len(a)),
                     Pow(2, n % LimbBits)).q

BigOdd(a) == a # << >> /\ a[1] % 2 = 1

\* a * b^n for a small b with b^c <= LimbBase
RECURSIVE BigMulPow(_, _, _, _)
BigMulPow(a, b, c, n) ==
    IF n <= c THEN BigMulSmall(a, Pow(b, n))
    ELSE Let([p \in {BigMulPow(a, b, c, n \div 2)} |->
           BigMulPow(p, b, c, n - (n \div 2))])

BigMulPow10(a, n) == BigMulPow(a, 10, 4, n)
BigMulPow5(a, n) == BigMulPow(a, 5, 6, n)

\* a \div 10^n, and whether anything was left over
RECURSIVE BigDivPow10(_, _)
BigDivPow10(a, n) ==
    IF n <= 4
    THEN Let([d \in {BigDivSmall(a, Pow(10, n))} |->
           [q |-> d.q, inexact |-> d.r # 0]])
    ELSE Let([x \in {BigDivPow10(a, n \div 2)} |->
         Let([y \in {BigDivPow10(x.q, n - (n \div 2))} |->
           [q |-> y.q, inexact |-> x.inexact \/ y.inexact]])])

(***************************************************************************)
(* Python values.  An int is a TLC integer.  A float is a double: nan, an  *)
(* infinity, or the finite value (-1)^neg * m * 2^e with m a natural       *)
(* below 2^53 that is odd (or zero, with e = 0), so that equal floats are  *)
(* equal records; a zero keeps its sign.                                   *)
(***************************************************************************)
PyNone == [t |-> "None"]
PyBool(b) == [t |-> "bool", b |-> b]
PyStr(s) == [t |-> "str", s |-> s]
PyInt(n) == [t |-> "int", n |-> n]

MantissaBits == 53
MinExponent == -1074
MaxBits == 1024

Finite(neg, m, e) == [t |-> "float", k |-> "fin", neg |-> neg, m |-> m, e |-> e]
Infinity(neg) == [t |-> "float", k |-> "inf", neg |-> neg, m |-> << >>, e |-> 0]
NaN == [t |-> "float", k |-> "nan", neg |-> FALSE, m |-> << >>, e |-> 0]
Zero(neg) == Finite(neg, << >>, 0)

\* the double nearest to (-1)^neg * (m + d) * 2^e, where d is 0, or is
\* some number above 0 and below 1 when inexact says so: the 53 leading
\* bits are kept (fewer below 2^-1022), ties go to the even mantissa, and
\* 2^1024 and more is an infinity
RoundToDouble(neg, m, e, inexact) ==
    IF m = << >> THEN Zero(neg)
    ELSE Let([len \in {BigBitLen(m)} |->
         Let([low \in {IF e + len - MantissaBits > MinExponent
             THEN e + len - MantissaBits ELSE MinExponent} |->
         Let([kept \in {IF low <= e THEN m
             ELSE Let([q \in {BigShr(m, low - e)} |->
                  Let([half \in {BigCmp(BigSub(m, BigShl(q, low - e)),
                             BigShl(<<1>>, low - e - 1))} |->
                    IF half > 0 \/ (half = 0 /\ (inexact \/ BigOdd(q)))
                    THEN BigAdd(q, <<1>>) ELSE q])])} |->
         Let([exp \in {IF low <= e THEN e ELSE low} |->
           IF kept = << >> THEN Zero(neg)
           ELSE IF BigBitLen(kept) + exp > MaxBits THEN Infinity(neg)
           ELSE Let([z \in {BigLowZeros(kept)} |->
                  Finite(neg, BigShr(kept, z), exp + z)])])])])])

\* the float n * 2^e for an integer n of the model, which has fewer than
\* 53 bits: no rounding
Dyadic(n, e) ==
    IF n = 0 THEN Zero(FALSE)
    ELSE Let([a \in {IF n < 0 THEN -n ELSE n} |->
         Let([z \in {LowZeros(a)} |->
           Finite(n < 0, BigOfNat(a \div Pow(2, z)), e + z)])])

\* float(n) of an int
FloatOfInt(n) == Dyadic(n, 0)

\* the float h / 2
PyFloat(h) == Dyadic(h, -1)

AsFloat(v) == IF v.t = "int" THEN FloatOfInt(v.n) ELSE v

\* a + b of two floats
FloatAdd(a, b) ==
    IF a.k = "nan" \/ b.k = "nan" THEN NaN
    ELSE IF a.k = "inf"
    THEN (IF b.k = "inf" /\ a.neg # b.neg THEN NaN ELSE a)
    ELSE IF b.k = "inf" THEN b
    ELSE IF a.m = << >> /\ b.m = << >> THEN Zero(a.neg /\ b.neg)
    ELSE Let([e \in {IF a.e < b.e THEN a.e ELSE b.e} |->
         Let([x \in {BigShl(a.m, a.e - e)} |->
         Let([y \in {BigShl(b.m, b.e - e)} |->
           IF a.neg = b.neg THEN RoundToDouble(a.neg, BigAdd(x, y), e, FALSE)
           ELSE Let([c \in {BigCmp(x, y)} |->
                  IF c = 0 THEN Zero(FALSE)
                  ELSE IF c > 0
                  THEN RoundToDouble(a.neg, BigSub(x, y), e, FALSE)
                  ELSE RoundToDouble(b.neg, BigSub(y, x), e, FALSE)])])])])

\* a + b of two numbers: int + int is an int, anything else a float
Add(a, b) ==
    IF a.t = "int" /\ b.t = "int" THEN PyInt(a.n + b.n)
    ELSE Let([x \in {AsFloat(a)} |->
         Let([y \in {AsFloat(b)} |-> FloatAdd(x, y)])])

\* -1, 0 or 1 as a < b, a = b or a > b, for two floats that are not nan
FloatCmp(a, b) ==
    Let([sa \in {IF a.k = "inf" THEN (IF a.neg THEN -2 ELSE 2)
        ELSE IF a.m = << >> THEN 0 ELSE IF a.neg THEN -1 ELSE 1} |->
    Let([sb \in {IF b.k = "inf" THEN (IF b.neg THEN -2 ELSE 2)
        ELSE IF b.m = << >> THEN 0 ELSE IF b.neg THEN -1 ELSE 1} |->
      IF sa # sb THEN (IF sa < sb THEN -1 ELSE 1)
      ELSE IF sa \in {-2, 0, 2} THEN 0
      ELSE Let([e \in {IF a.e < b.e THEN a.e ELSE b.e} |->
           Let([c \in {BigCmp(BigShl(a.m, a.e - e), BigShl(b.m, b.e - e))} |-> IF sa > 0 THEN c ELSE -c])])])])

\* -1, 0 or 1 for two numbers; 2 when one of them is nan
Cmp(a, b) ==
    IF a.t = "int" /\ b.t = "int"
    THEN (IF a.n < b.n THEN -1 ELSE IF a.n = b.n THEN 0 ELSE 1)
    ELSE Let([x \in {AsFloat(a)} |->
         Let([y \in {AsFloat(b)} |->
           IF x.k = "nan" \/ y.k = "nan" THEN 2 ELSE FloatCmp(x, y)])])

(***************************************************************************)
(* Text: formatting and parsing of numbers.                                *)
(***************************************************************************)
Digits == <<"0", "1", "2", "3", "4", "5", "6", "7", "8", "9">>

IsDigit(c) == \E d \in 1..10 : Digits[d] = c

DigitVal(c) == (CHOOSE d \in 1..10 : Digits[d] = c) - 1

RECURSIVE NatStr(_)
NatStr(n) ==
    IF n < 10 THEN <<Digits[n + 1]>>
    ELSE NatStr(n \div 10) \o <<Digits[(n % 10) + 1]>>

\* str(n) of an int
IntStr(n) == IF n < 0 THEN <<"-">> \o NatStr(-n) ELSE NatStr(n)

AllDigits(s) == \A i \in 1..Len(s) : IsDigit(s[i])

\* s without the characters of set at its start, and at its end
LStripOf(s, set) ==
    IF \A i \in 1..Len(s) : s[i] \in set THEN << >>
    ELSE SubSeq(s, CHOOSE i \in 1..Len(s) :
                     s[i] \notin set /\ \A j \in 1..(i - 1) : s[j] \in set,
                Len(s))

RStripOf(s, set) ==
    IF \A i \in 1..Len(s) : s[i] \in set THEN << >>
    ELSE SubSeq(s, 1, CHOOSE i \in 1..Len(s) :
                        /\ s[i] \notin set
                        /\ \A j \in (i + 1)..Len(s) : s[j] \in set)

StripLeadingZeros(s) == LStripOf(s, {"0"})
StripTrailingZeros(s) == RStripOf(s, {"0"})

\* the natural a text of up to nine digits stands for
RECURSIVE NatVal(_)
NatVal(s) ==
    IF s = << >> THEN 0
    ELSE 10 * NatVal(SubSeq(s, 1, Len(s) - 1)) + DigitVal(s[Len(s)])

\* the natural a text of digits stands for
RECURSIVE BigOfDigits(_)
BigOfDigits(s) ==
    IF Len(s) <= 4 THEN BigOfNat(NatVal(s))
    ELSE Let([high \in {BigOfDigits(SubSeq(s, 1, Len(s) \div 2))} |->
         Let([low \in {BigOfDigits(SubSeq(s, (Len(s) \div 2) + 1, Len(s)))} |->
           BigAdd(BigMulPow10(high, Len(s) - (Len(s) \div 2)), low)])])

\* the last n decimal digits of a natural below 10^n
RECURSIVE BigLastDigits(_, _)
BigLastDigits(a, n) ==
    IF n <= 4
    THEN [i \in 1..n |->
            Digits[(((IF a = << >> THEN 0 ELSE a[1]) \div Pow(10, n - i))
                    % 10) + 1]]
    ELSE Let([q \in {BigDivPow10(a, n \div 2).q} |->
         Let([r \in {BigSub(a, BigMulPow10(q, n \div 2))} |->
           BigLastDigits(q, n - (n \div 2))
               \o BigLastDigits(r, n \div 2)])])

\* the decimal digits of a natural; none for zero.  A natural of b bits
\* has at most 31 b / 100 + 1 digits.
BigToDigits(a) ==
    StripLeadingZeros(BigLastDigits(a, ((BigBitLen(a) * 31) \div 100) + 1))

Zeros(n) == [i \in 1..n |-> "0"]

\* decimal exponents past these give an infinity or a zero whatever the
\* digits are
MaxDecimalExponent == 310
MinDecimalExponent == -345

\* the double nearest to (-1)^neg * digits * 10^exp10 (correctly rounded,
\* as float() rounds)
DoubleOfDecimal(neg, digits, exp10) ==
    Let([lead \in {StripLeadingZeros(digits)} |->
    \* zeros at the end of the digits go into the exponent
    Let([ds \in {StripTrailingZeros(lead)} |->
    Let([e \in {exp10 + (Len(lead) - Len(ds))} |->
      IF ds = << >> THEN Zero(neg)
      ELSE IF Len(ds) + e > MaxDecimalExponent THEN Infinity(neg)
      ELSE IF Len(ds) + e < MinDecimalExponent THEN Zero(neg)
      ELSE Let([n \in {BigOfDigits(ds)} |->
             IF e >= 0
             THEN RoundToDouble(neg, BigMulPow10(n, e), 0, FALSE)
             ELSE \* enough bits that the quotient has 55 or more
                  Let([s \in {MantissaBits + 2 + 4 * (-e)} |->
                  Let([d \in {BigDivPow10(BigShl(n, s), -e)} |->
                    RoundToDouble(neg, d.q, -s, d.inexact)])])])])])])

\* The digits of repr(x) for a finite float x that is not zero, and
\* where the point goes: the value written is 0.d1d2...dn * 10^point.
\* all are the digits of the exact value of x, 0.all * 10^point.  Of the
\* texts float() reads back as x, repr writes one with the fewest digits
\* (1 to 17) and, of those, the nearest to the exact value; the nearest
\* two texts of n digits are the first n digits of the exact value and
\* those with 1 added in the last place.
Candidate(x, all, point, n) ==
    IF n >= Len(all) THEN [ok |-> TRUE, digits |-> all, point |-> point]
    ELSE
    Let([lo \in {SubSeq(all, 1, n)} |->
    Let([up \in {BigToDigits(BigAdd(BigOfDigits(lo), <<1>>))} |->
    Let([loOk \in {DoubleOfDecimal(x.neg, lo, point - n) = x} |->
    Let([upOk \in {DoubleOfDecimal(x.neg, up, point - n) = x} |->
    \* the digits left out against one half
    Let([nearerUp \in {\/ DigitVal(all[n + 1]) > 5
        \/ /\ DigitVal(all[n + 1]) = 5
           /\ \/ Len(all) > n + 1
              \/ DigitVal(all[n]) % 2 = 1} |->
      IF loOk /\ ~(upOk /\ nearerUp)
      THEN [ok |-> TRUE, digits |-> lo, point |-> point]
      ELSE [ok |-> upOk, digits |-> StripTrailingZeros(up),
            point |-> IF Len(up) > n THEN point + 1 ELSE point]])])])])])

\* the candidate of the fewest digits that float() reads back as x; the
\* one of 17 digits always is
RECURSIVE ShortestFrom(_, _, _, _)
ShortestFrom(x, all, point, n) ==
    Let([c \in {Candidate(x, all, point, n)} |->
      IF c.ok THEN [digits |-> c.digits, point |-> c.point]
      ELSE ShortestFrom(x, all, point, n + 1)])

Shortest(x) ==
    Let([whole \in {IF x.e >= 0 THEN BigShl(x.m, x.e) ELSE BigMulPow5(x.m, -x.e)} |->
    Let([raw \in {BigToDigits(whole)} |->
    Let([point \in {Len(raw) + (IF x.e >= 0 THEN 0 ELSE x.e)} |->
    Let([all \in {StripTrailingZeros(raw)} |->
      \* up to 15 digits are read back as written, and no shorter text
      \* is read as the same float
      IF Len(all) <= 15 THEN [digits |-> all, point |-> point]
      ELSE ShortestFrom(x, all, point, 1)])])])])

\* repr(x) of a float, which is also str(x) and what an f-string puts
repr(x) ==
    IF x.k = "nan" THEN <<"n", "a", "n">>
    ELSE IF x.k = "inf"
    THEN (IF x.neg THEN <<"-">> ELSE << >>) \o <<"i", "n", "f">>
    ELSE IF x.m = << >>
    THEN (IF x.neg THEN <<"-">> ELSE << >>) \o <<"0", ".", "0">>
    ELSE Let([r \in {Shortest(x)} |->
         Let([n \in {Len(r.digits)} |->
           (IF x.neg THEN <<"-">> ELSE << >>) \o
           (IF r.point > 16 \/ r.point < -3
            THEN \* d.ddde+XX
                 <<r.digits[1]>>
                 \o (IF n > 1 THEN <<".">> \o Tail(r.digits) ELSE << >>)
                 \o <<"e", IF r.point - 1 < 0 THEN "-" ELSE "+">>
                 \o Let([ex \in {NatStr(IF r.point - 1 < 0 THEN 1 - r.point
                               ELSE r.point - 1)} |->
                      IF Len(ex) < 2 THEN <<"0">> \o ex ELSE ex])
            ELSE IF r.point <= 0
            THEN <<"0", ".">> \o Zeros(-r.point) \o r.digits
            ELSE IF r.point >= n
            THEN r.digits \o Zeros(r.point - n) \o <<".", "0">>
            ELSE SubSeq(r.digits, 1, r.point) \o <<".">>
                     \o SubSeq(r.digits, r.point + 1, n))])])

\* the ASCII characters float() ignores around a number: blank, \t, \n,
\* \v (vertical tab), \f and \r.  The blanks beyond ASCII that float()
\* also ignores in a str are outside the alphabet of the model.
Whitespace == {" ", "\t", "\n", "", "\f", "\r"}

LStrip(s) == LStripOf(s, Whitespace)
RStrip(s) == RStripOf(s, Whitespace)

Lower(c) ==
    CASE c = "I" -> "i" [] c = "N" -> "n" [] c = "F" -> "f" [] c = "T" -> "t"
      [] c = "Y" -> "y" [] c = "A" -> "a" [] c = "E" -> "e" [] OTHER -> c

\* an underscore may stand between two digits only
UnderscoresGood(s) ==
    \A i \in 1..Len(s) :
       s[i] = "_" => /\ i > 1 /\ i < Len(s)
                     /\ IsDigit(s[i - 1]) /\ IsDigit(s[i + 1])

NoUnderscores(s) == SelectSeq(s, LAMBDA c : c # "_")

\* the exponent a text of digits stands for.  float() reads the exponent
\* into a machine integer: leading zeros do not count, and a text of more
\* than MaxExponentDigits digits stands for MaxAbsExponent.
MaxExponentDigits == 9
MaxAbsExponent == 1100000000

ExponentOf(s) ==
    Let([ds \in {StripLeadingZeros(s)} |->
      IF Len(ds) > MaxExponentDigits THEN MaxAbsExponent ELSE NatVal(ds)])

\* float() refuses a number of more than MaxDigits digits that count, or
\* of more than MaxDigits digits after the point.  The digits that count
\* are those after the leading zeros; the zeros at the end are among
\* them.
MaxDigits == 1000000000

CountedDigits(ip, fp) ==
    Let([lead \in {StripLeadingZeros(ip)} |->
      IF lead # << >> THEN Len(lead) + Len(fp)
      ELSE Len(StripLeadingZeros(fp))])

\* float(s) of a text of ASCII characters: surrounding whitespace is
\* ignored; then a sign, and "inf", "infinity" or "nan" in letters of
\* either case, or digits with at most one point and an exponent part
\* (e or E, a sign, digits), with single underscores between digits and
\* no more digits than MaxDigits.  ok is FALSE where float raises
\* ValueError; v is the float.
float(s) ==
    Let([t \in {RStrip(LStrip(s))} |->
    Let([signed \in {t # << >> /\ t[1] \in {"-", "+"}} |->
    Let([neg \in {t # << >> /\ t[1] = "-"} |->
    Let([body \in {IF signed THEN Tail(t) ELSE t} |->
    Let([low \in {[i \in 1..Len(body) |-> Lower(body[i])]} |->
      IF low \in {<<"i", "n", "f">>,
                  <<"i", "n", "f", "i", "n", "i", "t", "y">>}
      THEN [ok |-> TRUE, v |-> Infinity(neg)]
      ELSE IF low = <<"n", "a", "n">> THEN [ok |-> TRUE, v |-> NaN]
      ELSE IF ~UnderscoresGood(body) THEN [ok |-> FALSE, v |-> PyNone]
      ELSE
      Let([num \in {NoUnderscores(low)} |->
      Let([es \in {{i \in 1..Len(num) : num[i] = "e"}} |->
      Let([epos \in {IF es = {} THEN Len(num) + 1 ELSE CHOOSE i \in es : TRUE} |->
      Let([mant \in {SubSeq(num, 1, epos - 1)} |->
      Let([etext \in {SubSeq(num, epos + 1, Len(num))} |->
      Let([esigned \in {etext # << >> /\ etext[1] \in {"-", "+"}} |->
      Let([edigits \in {IF esigned THEN Tail(etext) ELSE etext} |->
      Let([dots \in {{i \in 1..Len(mant) : mant[i] = "."}} |->
      Let([dot \in {IF dots = {} THEN Len(mant) + 1 ELSE CHOOSE i \in dots : TRUE} |->
      Let([ip \in {SubSeq(mant, 1, dot - 1)} |->
      Let([fp \in {SubSeq(mant, dot + 1, Len(mant))} |->
        IF /\ Cardinality(es) <= 1
           /\ Cardinality(dots) <= 1
           /\ AllDigits(ip) /\ AllDigits(fp)
           /\ Len(ip) + Len(fp) > 0
           /\ CountedDigits(ip, fp) <= MaxDigits
           /\ Len(fp) <= MaxDigits
           /\ AllDigits(edigits)
           /\ es # {} => edigits # << >>
        THEN Let([ex \in {ExponentOf(edigits)} |->
             Let([exp \in {IF esigned /\ etext[1] = "-" THEN -ex ELSE ex} |->
               [ok |-> TRUE,
                v |-> DoubleOfDecimal(neg, ip \o fp, exp - Len(fp))]])])
        ELSE [ok |-> FALSE, v |-> PyNone]])])])])])])])])])])])])])])])])

\* s[:-1]
DropLast(s) == IF s = <<>> THEN s ELSE SubSeq(s, 1, Len(s) - 1)

\* sub in s
Contains(s, sub) ==
    \E i \in 1..(Len(s) - Len(sub) + 1) : SubSeq(s, i, i + Len(sub) - 1) = sub

(***************************************************************************)
(* The numbers the calls are given, and the arithmetic on them.  The       *)
(* results for the numbers of the inputs are tabled; every operator gives  *)
(* the result of the arithmetic for any other number.                      *)
(***************************************************************************)
\* Motor(..., bounds=[-180, 180], velocity=4, ...)
MotorBounds == <<PyInt(-180), PyInt(180)>>
MotorVelocity == 4

\* Polarizer(..., bounds=[-410, 410], velocity=20, ...)
PolarizerBounds == <<PyInt(-410), PyInt(410)>>
PolarizerVelocity == 20

\* the 45 of 'p + 45'
QuarterWaveOffset == 45

\* what the controller answers to '<axis>TP?'
PosResponses ==
    {<<"0", ".", "0", "\n">>, <<"1", "8", "0", ".", "4", "\n">>,
     <<"-", "1", "8", "0", "\n">>, <<"3", "6", "5", "\n">>,
     <<"3", "6", "6", "\n">>, <<"1", "e", "2", "\n">>, <<"n", "a", "n", "\n">>,
     <<"2", "0", "0">>, << >>}

Degrees ==
    {PyInt(-411), PyInt(-410), PyInt(-180), PyInt(0), PyInt(10), PyInt(180),
     PyInt(200), PyInt(410), PyInt(411), PyFloat(25)}

Parameters == {PyStr(<< >>), PyInt(0), PyFloat(25)}

\* the texts get_current_position gives to float()
Answers == {DropLast(r) : r \in PosResponses}

KnownFloats == [s \in Answers |-> float(s)]

\* float(s)
ParseFloat(s) ==
    Let([t \in {KnownFloats} |-> IF s \in DOMAIN t THEN t[s] ELSE float(s)])

\* the positions a Motor can tell, from the parsed answers
PositionsOf(t) ==
    {t[s].v : s \in {a \in DOMAIN t : t[a].ok}} \cup {PyFloat(0)}

\* what is added to a position: the degrees of a relative move and the
\* offset of the quarter-wave plate
Addends == Degrees \cup {PyInt(QuarterWaveOffset)}

KnownSums ==
    [p \in PositionsOf(KnownFloats) \X Addends |-> Add(p[1], p[2])]

\* a + b
NumAdd(a, b) ==
    Let([t \in {KnownSums} |->
      IF <<a, b>> \in DOMAIN t THEN t[<<a, b>>] ELSE Add(a, b)])

\* the targets of the moves, from the sums
TargetsOf(t) == Degrees \cup {t[p] : p \in DOMAIN t}

Limits ==
    {MotorBounds[1], MotorBounds[2], PolarizerBounds[1], PolarizerBounds[2]}

\* a target is compared with a limit
ComparedOf(targets) == (Limits \X targets) \cup (targets \X Limits)

KnownOrders ==
    [p \in ComparedOf(TargetsOf(KnownSums)) |-> Cmp(p[1], p[2])]

\* -1, 0 or 1 for a < b, a == b, a > b; 2 when one of them is nan
NumCmp(a, b) ==
    Let([t \in {KnownOrders} |->
      IF <<a, b>> \in DOMAIN t THEN t[<<a, b>>] ELSE Cmp(a, b)])

\* a <= b, a < b and a == b of Python: every comparison with nan is False
NumLe(a, b) == NumCmp(a, b) \in {-1, 0}
NumLt(a, b) == NumCmp(a, b) = -1
NumEq(a, b) == NumCmp(a, b) = 0

\* the floats that are put into a command
WrittenOf(targets) == {v \in targets \cup Parameters : v.t = "float"}

KnownTexts == [x \in WrittenOf(TargetsOf(KnownSums)) |-> repr(x)]

\* str(x) of a float
FloatStr(x) ==
    Let([t \in {KnownTexts} |-> IF x \in DOMAIN t THEN t[x] ELSE repr(x)])

\* the text an f-string puts for a value
Format(v) ==
    CASE v.t = "str" -> v.s
      [] v.t = "int" -> IntStr(v.n)
      [] v.t = "float" -> FloatStr(v)
      [] v.t = "bool" -> IF v.b THEN <<"T", "r", "u", "e">>
                         ELSE <<"F", "a", "l", "s", "e">>
      [] OTHER -> <<"N", "o", "n", "e">>

(***************************************************************************)
(* Motor.COMMANDS and Motor.ERROR_CODES.                                   *)
(***************************************************************************)
DefineHome ==
    <<"d", "e", "f", "i", "n", "e", " ", "h", "o", "m", "e">>
MoveToAbsolutePosition ==
    <<"m", "o", "v", "e", " ", "t", "o", " ", "a", "b", "s", "o", "l",
      "u", "t", "e", " ", "p", "o", "s", "i", "t", "i", "o", "n">>
MoveToRelativePosition ==
    <<"m", "o", "v", "e", " ", "t", "o", " ", "r", "e", "l", "a", "t",
      "i", "v", "e", " ", "p", "o", "s", "i", "t", "i", "o", "n">>
ReadErrorCode ==
    <<"r", "e", "a", "d", " ", "e", "r", "r", "o", "r", " ", "c", "o",
      "d", "e">>
SearchForHome ==
    <<"s", "e", "a", "r", "c", "h", " ", "f", "o", "r", " ", "h", "o",
      "m", "e">>
SetHomeSearchMode ==
    <<"s", "e", "t", " ", "h", "o", "m", "e", " ", "s", "e", "a", "r",
      "c", "h", " ", "m", "o", "d", "e">>
SetVelocity ==
    <<"s", "e", "t", " ", "v", "e", "l", "o", "c", "i", "t", "y">>
WaitForMotionStop ==
    <<"w", "a", "i", "t", " ", "f", "o", "r", " ", "m", "o", "t", "i",
      "o", "n", " ", "s", "t", "o", "p">>

COMMANDS ==
    (DefineHome :> <<"D", "H">>)
    @@ (MoveToAbsolutePosition :> <<"P", "A">>)
    @@ (MoveToRelativePosition :> <<"P", "R">>)
    @@ (ReadErrorCode :> <<"T", "E", "?">>)
    @@ (SearchForHome :> <<"O", "R">>)
    @@ (SetHomeSearchMode :> <<"O", "M">>)
    @@ (SetVelocity :> <<"V", "A">>)
    @@ (WaitForMotionStop :> <<"W", "S">>)

ERROR_CODES ==
    (<<"1">> :> "PCI COMMUNICATION TIME-OUT")
    @@ (<<"7">> :> "PARAMETER OUT OF RANGE")
    @@ (<<"9">> :> "AXIS NUMBER OUT OF RANGE")
    @@ (<<"1", "0">> :> "MAXIMUM VELOCITY EXCEEDED")
    @@ (<<"1", "3">> :> "MOTOR NOT ENABLED")
    @@ (<<"3", "7">> :> "AXIS NUMBER MISSING")
    @@ (<<"3", "8">> :> "COMMAND PARAMETER MISSING")

\* the text 'VisaIOError' the retrying calls return after the last attempt
VisaIOErrorText ==
    <<"V", "i", "s", "a", "I", "O", "E", "r", "r", "o", "r">>

\* the position query of an axis is str(axis) + 'TP?'
TellPosition == <<"T", "P", "?">>

(***************************************************************************)
(* The world a call runs in: the transport's behaviour (inputs) and the    *)
(* trace written so far.  A call yields a return value, an exception       *)
(* ("" for none) and the world after it.                                   *)
(***************************************************************************)
World(faults, errResp, posResp) ==
    [faults |-> faults, errResp |-> errResp, posResp |-> posResp,
     trace |-> <<>>]

Return(v, w) == [ret |-> v, exc |-> "", w |-> w]

Raise(e, w) == [ret |-> PyNone, exc |-> e, w |-> w]

\* the next transport call raises pyvisa.VisaIOError
TransportFails(w) == w.faults # <<>> /\ Head(w.faults)

\* what the controller answers to a query
Response(w, command) ==
    IF Contains(command, TellPosition) THEN w.posResp ELSE w.errResp

\* instrument.write(command) or instrument.query(command) was called
Called(w, m, kind, command) ==
    [w EXCEPT
       !.faults = IF @ = <<>> THEN @ ELSE Tail(@),
       !.trace = Append(@,
           [e |-> kind, m |-> m, cmd |-> command, ok |-> ~TransportFails(w),
            resp |-> IF kind = "query" /\ ~TransportFails(w)
                     THEN Response(w, command) ELSE <<>>])]

\* tools.logprint(...) or print(...) was called
Logged(w, event) == [w EXCEPT !.trace = Append(@, event)]

(***************************************************************************)
(* Motor.  self is the record of the object's attributes; self.m names     *)
(* the object in the trace.                                                *)
(***************************************************************************)
\* what a Motor is given for its instrument: a resource that
\* rm.open_resource returned, or the str ESP.__init__ puts in its place in
\* testflight mode and off win32
Resource == "resource"
FakeInstrument == "fake instrument"
Instruments == {Resource, FakeInstrument}

\* self.instrument.write and self.instrument.query exist: a str has
\* neither, and the attribute reference raises AttributeError
HasTransport(self) == self.instrument = Resource

\* the literal 3 of 'if attempt < 3'
Attempts == 3

\* a retry test that lets a fourth attempt through
write_retry_four(attempt) == attempt < Attempts + 1

\* write_command: 'if attempt < 3' decides on another attempt
write_retry(attempt) == attempt < Attempts

\* query_command: 'if attempt < 3' decides on another attempt
query_retry(attempt) == attempt < Attempts

\* the report of a failed attempt and of the last failed attempt
VisaLog(self, command, attempt) ==
    [e |-> "log", m |-> self.m, msg |-> "VisaIOError", cmd |-> command,
     attempt |-> attempt]

GiveUpLog(self) == [e |-> "log", m |-> self.m, msg |-> "three attempts failed"]

RECURSIVE write_command(_, _, _, _)
write_command(self, command, attempt, w) ==
    IF ~HasTransport(self) THEN Raise("AttributeError", w)
    ELSE
    Let([w1 \in {Called(w, self.m, "write", command)} |->
      IF ~TransportFails(w) THEN Return(PyNone, w1)
      ELSE Let([w2 \in {Logged(w1, VisaLog(self, command, attempt))} |->
        IF write_retry(attempt)
        THEN \* the result of the inner call is dropped
             Let([r \in {write_command(self, command, attempt + 1, w2)} |->
               Return(PyNone, r.w)])
        ELSE Return(PyStr(VisaIOErrorText), Logged(w2, GiveUpLog(self)))])])

RECURSIVE query_command(_, _, _, _)
query_command(self, command, attempt, w) ==
    IF ~HasTransport(self) THEN Raise("AttributeError", w)
    ELSE
    Let([w1 \in {Called(w, self.m, "query", command)} |->
      IF ~TransportFails(w) THEN Return(PyStr(Response(w, command)), w1)
      ELSE Let([w2 \in {Logged(w1, VisaLog(self, command, attempt))} |->
        IF query_retry(attempt)
        THEN \* output = self.query_command(...); return output
             query_command(self, command, attempt + 1, w2)
        ELSE Return(PyStr(VisaIOErrorText), Logged(w2, GiveUpLog(self)))])])

\* the wait for motion stop appended to every command
full_command_always_waits(self, command, parameter) ==
    IntStr(self.axis) \o COMMANDS[command] \o Format(parameter) \o <<";">>
        \o IntStr(self.axis) \o COMMANDS[WaitForMotionStop] \o <<"0">>

\* f'{self.axis}{self.COMMANDS[command]}{parameter}', and for a command
\* whose name holds 'move' the wait for motion stop appended
full_command(self, command, parameter) ==
    Let([base \in {IntStr(self.axis) \o COMMANDS[command] \o Format(parameter)} |->
      IF Contains(command, <<"m", "o", "v", "e">>)
      THEN base \o <<";">> \o IntStr(self.axis)
               \o COMMANDS[WaitForMotionStop] \o <<"0">>
      ELSE base])

\* the axis digit dropped from every response longer than one character
strip_axis_longer_than_one(err, axis) ==
    IF <<err[1]>> = IntStr(axis) /\ Len(err) > 1 THEN Tail(err) ELSE err

\* 'if err[0] == str(self.axis) and len(err) > 2: err = err[1:]'
\* (err is not empty here)
strip_axis(err, axis) ==
    IF <<err[1]>> = IntStr(axis) /\ Len(err) > 2 THEN Tail(err) ELSE err

\* the report of an error code that never looks the code up
ErrorCodeLog_raw(self, err, command) ==
    [e |-> "log", m |-> self.m, msg |-> "error code", code |-> err,
     known |-> FALSE, desc |-> "", cmd |-> << >>]

\* the report of an error code; the report of a code of the table names
\* its description and the command
ErrorCodeLog(self, err, command) ==
    [e |-> "log", m |-> self.m, msg |-> "error code", code |-> err,
     known |-> err \in DOMAIN ERROR_CODES,
     desc |-> IF err \in DOMAIN ERROR_CODES THEN ERROR_CODES[err] ELSE "",
     cmd |-> IF err \in DOMAIN ERROR_CODES THEN command ELSE << >>]

\* the decoding of the error code, shared by send_command and
\* send_ASCII_command: 'if err != "0"' with its report, else True
decode(self, err, command, w) ==
    IF err # <<"0">>
    THEN Return(PyBool(FALSE), Logged(w, ErrorCodeLog(self, err, command)))
    ELSE Return(PyBool(TRUE), w)

\* send_command that asks for the error code before it writes
send_command_reads_first(self, command, parameter, w) ==
    IF self.testflight THEN Return(PyBool(TRUE), w)
    ELSE IF command \notin DOMAIN COMMANDS THEN Raise("KeyError", w)
    ELSE Let([full \in {full_command(self, command, parameter)} |->
         Let([qr \in {query_command(self, COMMANDS[ReadErrorCode], 1, w)} |->
           IF qr.exc # "" THEN qr
           ELSE
         Let([wr \in {write_command(self, full, 1, qr.w)} |->
           IF wr.exc # "" THEN wr
           ELSE IF qr.ret.s = << >> THEN Raise("IndexError", wr.w)
           ELSE Let([err \in {strip_axis(qr.ret.s, self.axis)} |->
                  decode(self, err, full, wr.w)])])])])

\* send_command that writes a name it does not know without an opcode
send_command_unchecked(self, command, parameter, w) ==
    IF self.testflight THEN Return(PyBool(TRUE), w)
    ELSE Let([full \in {IF command \in DOMAIN COMMANDS
             THEN full_command(self, command, parameter)
             ELSE IntStr(self.axis) \o Format(parameter)} |->
         Let([wr \in {write_command(self, full, 1, w)} |->
           IF wr.exc # "" THEN wr
           ELSE
         Let([qr \in {query_command(self, COMMANDS[ReadErrorCode], 1, wr.w)} |->
           IF qr.exc # "" THEN qr
           ELSE IF qr.ret.s = << >> THEN Raise("IndexError", qr.w)
           ELSE Let([err \in {strip_axis(qr.ret.s, self.axis)} |->
                  decode(self, err, full, qr.w)])])])])

\* send_command without its testflight branch
send_command_ignores_testflight(self, command, parameter, w) ==
    IF command \notin DOMAIN COMMANDS THEN Raise("KeyError", w)
    ELSE Let([full \in {full_command(self, command, parameter)} |->
         Let([wr \in {write_command(self, full, 1, w)} |->
           IF wr.exc # "" THEN wr
           ELSE
         Let([qr \in {query_command(self, COMMANDS[ReadErrorCode], 1, wr.w)} |->
           IF qr.exc # "" THEN qr
           ELSE IF qr.ret.s = << >> THEN Raise("IndexError", qr.w)
           ELSE Let([err \in {strip_axis(qr.ret.s, self.axis)} |->
                  decode(self, err, full, qr.w)])])])])

send_command(self, command, parameter, w) ==
    IF self.testflight THEN Return(PyBool(TRUE), w)
    ELSE IF command \notin DOMAIN COMMANDS THEN Raise("KeyError", w)
    ELSE Let([full \in {full_command(self, command, parameter)} |->
         Let([wr \in {write_command(self, full, 1, w)} |->
           IF wr.exc # "" THEN wr
           ELSE
         Let([qr \in {query_command(self, COMMANDS[ReadErrorCode], 1, wr.w)} |->
           IF qr.exc # "" THEN qr
           ELSE IF qr.ret.s = << >> THEN Raise("IndexError", qr.w)
           ELSE Let([err \in {strip_axis(qr.ret.s, self.axis)} |->
                  decode(self, err, full, qr.w)])])])])

send_ASCII_command(self, command, w) ==
    IF self.testflight THEN Return(PyBool(TRUE), w)
    ELSE IF ~HasTransport(self) THEN Raise("AttributeError", w)
    ELSE Let([w1 \in {Called(w, self.m, "write", command)} |->
           IF TransportFails(w) THEN Raise("VisaIOError", w1)
           ELSE Let([w2 \in {Called(w1, self.m, "query", COMMANDS[ReadErrorCode])} |->
             IF TransportFails(w1) THEN Raise("VisaIOError", w2)
             ELSE Let([raw \in {Response(w1, COMMANDS[ReadErrorCode])} |->
                    IF raw = << >> THEN Raise("IndexError", w2)
                    ELSE Let([err \in {strip_axis(raw, self.axis)} |->
                           decode(self, err, << >>, w2)])])])])

get_current_position(self, w) ==
    IF self.testflight THEN Return(self.current_position, w)
    ELSE IF ~HasTransport(self) THEN Raise("AttributeError", w)
    ELSE Let([command \in {IntStr(self.axis) \o TellPosition} |->
         Let([w1 \in {Called(w, self.m, "query", command)} |->
           IF TransportFails(w) THEN Raise("VisaIOError", w1)
           ELSE Let([p \in {ParseFloat(DropLast(Response(w, command)))} |->
                  IF ~p.ok THEN Raise("ValueError", w1)
                  ELSE Return(p.v, w1)])])])

\* bounds that exclude their end points
allowed_strict(bounds, new_position) ==
    NumLt(bounds[1], new_position) /\ NumLt(new_position, bounds[2])

\* 'allowed = self.bounds[0] <= new_position <= self.bounds[1]'
allowed(bounds, new_position) ==
    NumLe(bounds[1], new_position) /\ NumLe(new_position, bounds[2])

MoveLog(self, msg, new_position) ==
    [e |-> "log", m |-> self.m, msg |-> msg, pos |-> new_position]

\* a move that reports a target outside the bounds and sends it all the
\* same
move_to_unchecked(self, new_position, verbose, w) ==
    Let([w1 \in {IF allowed(self.bounds, new_position) THEN w
        ELSE Logged(w, MoveLog(self, "out of bounds", new_position))} |->
    Let([sent \in {send_command(self, MoveToAbsolutePosition, new_position, w1)} |->
      [ret |-> PyNone, exc |-> sent.exc, w |-> sent.w]])])

\* the part of move after new_position is computed
move_to(self, new_position, verbose, w) ==
    IF allowed(self.bounds, new_position)
    THEN Let([w1 \in {IF verbose THEN Logged(w, MoveLog(self, "moving", new_position))
             ELSE w} |->
         Let([sent \in {send_command(self, MoveToAbsolutePosition, new_position, w1)} |->
           \* the result of send_command is dropped
           [ret |-> PyNone, exc |-> sent.exc, w |-> sent.w]])])
    ELSE Return(PyNone, Logged(w, MoveLog(self, "out of bounds", new_position)))

\* a relative move that takes the degrees for the target and does not
\* ask for the position
move_degrees_as_target(self, degrees, mode, verbose, w) ==
    IF mode \in {"absolute", "relative"}
    THEN move_to(self, degrees, verbose, w)
    ELSE Raise("UnboundLocalError", w)

move(self, degrees, mode, verbose, w) ==
    IF mode = "absolute" THEN move_to(self, degrees, verbose, w)
    ELSE IF mode = "relative"
    THEN Let([gp \in {get_current_position(self, w)} |->
           IF gp.exc # "" THEN gp
           ELSE Let([new_position \in {NumAdd(gp.ret, degrees)} |->
                  move_to(self, new_position, verbose, gp.w)])])
    ELSE \* new_position is not bound
         Raise("UnboundLocalError", w)

\* define_home that takes every answer but "N" for the confirmation
define_home_unless_no(self, degrees, choice, w) ==
    Let([w1 \in {Logged(w, [e |-> "log", m |-> self.m, msg |-> "new home sequence"])} |->
    Let([gp \in {get_current_position(self, w1)} |->
      IF gp.exc # "" THEN gp
      ELSE Let([w2 \in {Logged(gp.w, [e |-> "log", m |-> self.m, msg |-> "redefine",
                             pos |-> gp.ret, to |-> degrees])} |->
             IF choice # "N"
             THEN Let([sent \in {send_command(self, DefineHome, degrees, w2)} |->
                    IF sent.exc # "" THEN sent
                    ELSE Return(PyNone,
                           Logged(sent.w,
                                  [e |-> "log", m |-> self.m,
                                   msg |-> IF sent.ret.b THEN "home saved"
                                           ELSE "home failed"]))])
             ELSE Return(PyNone, w2)])])])

\* choice is what input() returns
define_home(self, degrees, choice, w) ==
    Let([w1 \in {Logged(w, [e |-> "log", m |-> self.m, msg |-> "new home sequence"])} |->
    Let([gp \in {get_current_position(self, w1)} |->
      IF gp.exc # "" THEN gp
      ELSE Let([w2 \in {Logged(gp.w, [e |-> "log", m |-> self.m, msg |-> "redefine",
                             pos |-> gp.ret, to |-> degrees])} |->
             IF choice \in {"Y", "y"}
             THEN Let([sent \in {send_command(self, DefineHome, degrees, w2)} |->
                    IF sent.exc # "" THEN sent
                    ELSE Return(PyNone,
                           Logged(sent.w,
                                  [e |-> "log", m |-> self.m,
                                   msg |-> IF sent.ret.b THEN "home saved"
                                           ELSE "home failed"]))])
             ELSE Return(PyNone, w2)])])])

\* the attributes Motor.__init__ sets from its parameters
Attributes(m, instrument, axis, bounds, velocity, testflight) ==
    [m |-> m, instrument |-> instrument, axis |-> axis, bounds |-> bounds,
     velocity |-> velocity, testflight |-> testflight,
     current_position |-> IF testflight THEN PyFloat(0) ELSE PyNone]

\* a constructor that sets the home search mode before the velocity
Motor__init__swapped(m, instrument, axis, bounds, velocity, testflight, w) ==
    Let([self \in {Attributes(m, instrument, axis, bounds, velocity, testflight)} |->
      IF testflight THEN Return(self, w)
      ELSE Let([r1 \in {send_command(self, SetHomeSearchMode, PyInt(0), w)} |->
             IF r1.exc # "" THEN r1
             ELSE Let([r2 \in {send_command(self, SetVelocity, velocity, r1.w)} |->
                    IF r2.exc # "" THEN r2 ELSE Return(self, r2.w)])])])

\* Motor(name, instrument, axis, bounds, velocity, testflight): ret is the
\* new object
Motor__init__(m, instrument, axis, bounds, velocity, testflight, w) ==
    Let([self \in {Attributes(m, instrument, axis, bounds, velocity, testflight)} |->
      IF testflight THEN Return(self, w)
      ELSE Let([r1 \in {send_command(self, SetVelocity, velocity, w)} |->
             IF r1.exc # "" THEN r1
             ELSE Let([r2 \in {send_command(self, SetHomeSearchMode, PyInt(0), r1.w)} |->
                    IF r2.exc # "" THEN r2 ELSE Return(self, r2.w)])])])

(***************************************************************************)
(* Polarizer: lin_polarizer is the Motor named "lin", quart_lambda the     *)
(* Motor named "quart".                                                    *)
(***************************************************************************)
\* ret is the pair of Motors of the new object
Polarizer__init__(inst1, inst2, ax1, ax2, bounds, velocity, testflight, w) ==
    Let([r1 \in {Motor__init__("lin", inst1, ax1, bounds, velocity, testflight, w)} |->
      IF r1.exc # "" THEN r1
      ELSE Let([r2 \in {Motor__init__("quart", inst2, ax2, bounds, velocity,
                             testflight, r1.w)} |->
             IF r2.exc # "" THEN r2
             ELSE Return([lin_polarizer |-> r1.ret,
                          quart_lambda |-> r2.ret], r2.w)])])

\* 'self.quart_lambda.move(p + 45, "absolute", verbose)'
quart_target(p) == NumAdd(p, PyInt(QuarterWaveOffset))

\* a set that derives the second target from the requested degrees
Polarizer_set_requested(lin_polarizer, quart_lambda, degrees, verbose, w) ==
    Let([r1 \in {move(lin_polarizer, degrees, "absolute", verbose, w)} |->
      IF r1.exc # "" THEN r1
      ELSE Let([gp \in {get_current_position(lin_polarizer, r1.w)} |->
             IF gp.exc # "" THEN gp
             ELSE Let([target \in {quart_target(degrees)} |->
                    move(quart_lambda, target, "absolute", verbose, gp.w)])])])

Polarizer_set(lin_polarizer, quart_lambda, degrees, verbose, w) ==
    Let([r1 \in {move(lin_polarizer, degrees, "absolute", verbose, w)} |->
      IF r1.exc # "" THEN r1
      ELSE Let([gp \in {get_current_position(lin_polarizer, r1.w)} |->
             IF gp.exc # "" THEN gp
             ELSE Let([target \in {quart_target(gp.ret)} |->
                    move(quart_lambda, target, "absolute", verbose, gp.w)])])])

(***************************************************************************)
(* The objects and the inputs of the calls.                                *)
(***************************************************************************)
Motors == {"lin", "quart"}

\* the axis each Motor is built for
Axis == [m \in Motors |-> IF m = "lin" THEN 1 ELSE 2]

NoMotor == [absent |-> TRUE]

Idle == [name |-> "idle"]

\* the scripts of transport failures.  Calls past the end of a script
\* succeed, so a script that ends with a success does what the script
\* without it does: the scripts that end with a failure are all there is
Faults ==
    {f \in UNION {[1..n -> BOOLEAN] : n \in 0..MaxFaults} :
        f = << >> \/ f[Len(f)]}

NoFaults == {<< >>}

\* what the controller answers to 'TE?'
ErrResponses ==
    {<<"0">>, <<"1">>, <<"7">>, <<"9">>, <<"1", "0">>, <<"1", "3">>,
     <<"3", "7">>, <<"3", "8">>, <<"1", "1", "3">>, <<"2", "1", "3">>,
     <<"9", "9">>, << >>}

Modes == {"absolute", "relative"}

\* the command names given to send_command; the last is not in COMMANDS
CommandNames == DOMAIN COMMANDS \cup {<<"s", "t", "o", "p">>}

\* the texts given to write_command, query_command and send_ASCII_command
WireCommands ==
    {<<"1", "P", "A", "1", "0", ";", "1", "W", "S", "0">>,
     <<"T", "E", "?">>, <<"1", "T", "P", "?">>}

Choices == {"Y", "y", "N", "", "yes"}

\* the transport inputs a call can depend on: none in testflight mode
FaultsFor(self) == IF self.testflight THEN NoFaults ELSE Faults
ErrFor(self) == IF self.testflight THEN {<< >>} ELSE ErrResponses
PosFor(self, used) ==
    IF self.testflight \/ ~used THEN {<< >>} ELSE PosResponses

\* the transport inputs of a call that has no testflight branch: none
\* when the instrument is the str
WireFaultsFor(self) == IF HasTransport(self) THEN Faults ELSE NoFaults
WireResponsesFor(self) ==
    IF HasTransport(self) THEN ErrResponses ELSE {<< >>}

(***************************************************************************)
(* The state machine.                                                      *)
(***************************************************************************)
Init ==
    /\ motor = [m \in Motors |-> NoMotor]
    /\ polarizer = FALSE
    /\ op = Idle
    /\ ret = PyNone
    /\ exc = ""
    /\ trace = << >>

\* the call completed with result r
Completed(name, m, args, r) ==
    /\ op' = [name |-> name, m |-> m, args |-> args]
    /\ ret' = r.ret
    /\ exc' = r.exc
    /\ trace' = r.w.trace

Exists(m) == motor[m] # NoMotor

\* Motor(m, instrument, Axis[m]) with the defaults, in either mode
MotorInit(m) ==
    /\ op = Idle /\ ~Exists(m) /\ ~polarizer
    /\ \E testflight \in BOOLEAN, instrument \in Instruments :
         \E faults \in (IF testflight \/ instrument # Resource THEN NoFaults
                        ELSE Faults),
            errResp \in (IF testflight \/ instrument # Resource THEN {<< >>}
                         ELSE ErrResponses) :
           LET r == Motor__init__(m, instrument, Axis[m], MotorBounds,
                                  PyInt(MotorVelocity), testflight,
                                  World(faults, errResp, << >>))
           IN  /\ Completed("Motor", m,
                            [testflight |-> testflight,
                             instrument |-> instrument], r)
               /\ motor' = IF r.exc = "" THEN [motor EXCEPT ![m] = r.ret]
                           ELSE motor
               /\ UNCHANGED polarizer

\* Polarizer(name, inst1, inst2, 1, 2) with the defaults, in either mode
PolarizerInit ==
    /\ op = Idle /\ ~polarizer /\ \A m \in Motors : ~Exists(m)
    /\ \E testflight \in BOOLEAN, inst1 \in Instruments,
          inst2 \in Instruments :
         \E faults \in (IF testflight \/ inst1 # Resource THEN NoFaults
                        ELSE Faults),
            errResp \in (IF testflight \/ inst1 # Resource THEN {<< >>}
                         ELSE ErrResponses) :
           LET r == Polarizer__init__(inst1, inst2, Axis["lin"],
                                      Axis["quart"], PolarizerBounds,
                                      PyInt(PolarizerVelocity), testflight,
                                      World(faults, errResp, << >>))
           IN  /\ Completed("Polarizer", "",
                            [testflight |-> testflight, inst1 |-> inst1,
                             inst2 |-> inst2], r)
               /\ motor' = IF r.exc = ""
                           THEN [m \in Motors |->
                                   IF m = "lin" THEN r.ret.lin_polarizer
                                   ELSE r.ret.quart_lambda]
                           ELSE motor
               /\ polarizer' = (r.exc = "")

GetCurrentPosition(m) ==
    /\ op = Idle /\ Exists(m)
    /\ \E faults \in FaultsFor(motor[m]), posResp \in PosFor(motor[m], TRUE) :
         Completed("get_current_position", m, [none |-> TRUE],
                   get_current_position(motor[m],
                                        World(faults, << >>, posResp)))
    /\ UNCHANGED <<motor, polarizer>>

Move(m) ==
    /\ op = Idle /\ Exists(m)
    /\ \E degrees \in Degrees, mode \in Modes, verbose \in BOOLEAN :
         \E faults \in FaultsFor(motor[m]), errResp \in ErrFor(motor[m]),
            posResp \in PosFor(motor[m], mode = "relative") :
           Completed("move", m,
                     [degrees |-> degrees, mode |-> mode,
                      verbose |-> verbose],
                     move(motor[m], degrees, mode, verbose,
                          World(faults, errResp, posResp)))
    /\ UNCHANGED <<motor, polarizer>>

SendCommand(m) ==
    /\ op = Idle /\ Exists(m)
    /\ \E command \in CommandNames, parameter \in Parameters :
         \E faults \in FaultsFor(motor[m]), errResp \in ErrFor(motor[m]) :
           Completed("send_command", m,
                     [command |-> command, parameter |-> parameter],
                     send_command(motor[m], command, parameter,
                                  World(faults, errResp, << >>)))
    /\ UNCHANGED <<motor, polarizer>>

SendASCIICommand(m) ==
    /\ op = Idle /\ Exists(m)
    /\ \E command \in WireCommands :
         \E faults \in FaultsFor(motor[m]), errResp \in ErrFor(motor[m]) :
           Completed("send_ASCII_command", m, [command |-> command],
                     send_ASCII_command(motor[m], command,
                                        World(faults, errResp, << >>)))
    /\ UNCHANGED <<motor, polarizer>>

\* write_command and query_command have no testflight branch: they call
\* the instrument of a Motor of either mode
WriteCommand(m) ==
    /\ op = Idle /\ Exists(m)
    /\ \E command \in WireCommands, faults \in WireFaultsFor(motor[m]) :
         Completed("write_command", m, [command |-> command],
                   write_command(motor[m], command, 1,
                                 World(faults, << >>, << >>)))
    /\ UNCHANGED <<motor, polarizer>>

QueryCommand(m) ==
    /\ op = Idle /\ Exists(m)
    /\ \E command \in WireCommands, faults \in WireFaultsFor(motor[m]),
          resp \in WireResponsesFor(motor[m]) :
         Completed("query_command", m, [command |-> command],
                   query_command(motor[m], command, 1,
                                 World(faults, resp, resp)))
    /\ UNCHANGED <<motor, polarizer>>

DefineHomeCall(m) ==
    /\ op = Idle /\ Exists(m)
    /\ \E degrees \in {PyInt(0), PyInt(10)}, choice \in Choices :
         \E faults \in FaultsFor(motor[m]), errResp \in ErrFor(motor[m]),
            posResp \in PosFor(motor[m], TRUE) :
           Completed("define_home", m,
                     [degrees |-> degrees, choice |-> choice],
                     define_home(motor[m], degrees, choice,
                                 World(faults, errResp, posResp)))
    /\ UNCHANGED <<motor, polarizer>>

PolarizerSet ==
    /\ op = Idle /\ polarizer
    /\ \E degrees \in Degrees, verbose \in BOOLEAN :
         \E faults \in FaultsFor(motor["lin"]),
            errResp \in ErrFor(motor["lin"]),
            posResp \in PosFor(motor["lin"], TRUE) :
           Completed("set", "",
                     [degrees |-> degrees, verbose |-> verbose],
                     Polarizer_set(motor["lin"], motor["quart"], degrees,
                                   verbose, World(faults, errResp, posResp)))
    /\ UNCHANGED <<motor, polarizer>>

\* the caller goes on to its next call
Continue ==
    /\ op # Idle
    /\ op' = Idle
    /\ ret' = PyNone
    /\ exc' = ""
    /\ trace' = << >>
    /\ UNCHANGED <<motor, polarizer>>

Next ==
    \/ \E m \in Motors : MotorInit(m)
    \/ PolarizerInit
    \/ \E m \in Motors : GetCurrentPosition(m)
    \/ \E m \in Motors : Move(m)
    \/ \E m \in Motors : SendCommand(m)
    \/ \E m \in Motors : SendASCIICommand(m)
    \/ \E m \in Motors : WriteCommand(m)
    \/ \E m \in Motors : QueryCommand(m)
    \/ \E m \in Motors : DefineHomeCall(m)
    \/ PolarizerSet
    \/ Continue

Spec == Init /\ [][Next]_vars

(***************************************************************************)
(* Reading the outcome of the last call.                                   *)
(***************************************************************************)
IsTransport(ev) == ev.e \in {"write", "query"}

\* the transport calls of the last call, in order
Transport == SelectSeq(trace, IsTransport)

\* the places of the trace where Motor m called the transport with kind
Calls(m, kind) ==
    {i \in DOMAIN trace : trace[i].e = kind /\ trace[i].m = m}

\* the places of the trace where Motor m logged msg
Logs(m, msg) ==
    {i \in DOMAIN trace :
        trace[i].e = "log" /\ trace[i].m = m /\ trace[i].msg = msg}

FailedCalls(kind) ==
    {i \in DOMAIN trace : trace[i].e = kind /\ ~trace[i].ok}

\* the last call was method name of a Motor in real mode
RealCall(name) == op.name = name /\ ~motor[op.m].testflight

\* x < bounds[0] or bounds[1] < x
Outside(bounds, x) == NumLt(x, bounds[1]) \/ NumLt(bounds[2], x)

\* bounds[0] <= x <= bounds[1]
Inside(bounds, x) == NumLe(bounds[1], x) /\ NumLe(x, bounds[2])

\* the text of "move to absolute position" with target x on an axis
MoveText(axis, x) ==
    IntStr(axis) \o <<"P", "A">> \o Format(x) \o <<";">> \o IntStr(axis)
        \o <<"W", "S", "0">>

(***************************************************************************)
(* C1: an absolute move of a real-mode Motor to a target outside the       *)
(* bounds calls the transport not at all and gives its caller a result     *)
(* that differs from the result of an accepted move (which is None).       *)
(***************************************************************************)
C1_OutOfBoundsReported ==
    (/\ RealCall("move")
     /\ op.args.mode = "absolute"
     /\ Outside(motor[op.m].bounds, op.args.degrees))
    => (Transport = << >> /\ exc = "" /\ ret # PyNone)

(***************************************************************************)
(* C2: write_command and query_command whose transport fails twice and     *)
(* then succeeds return success (the query: the text of the third          *)
(* attempt); when all three attempts fail they return 'VisaIOError'.       *)
(***************************************************************************)
C2_RetryOutcome ==
    op.name \in {"write_command", "query_command"}
    => LET t == Transport
       IN  /\ (Len(t) = 3 /\ ~t[1].ok /\ ~t[2].ok /\ t[3].ok)
              => /\ exc = ""
                 /\ ret = IF op.name = "write_command" THEN PyNone
                          ELSE PyStr(t[3].resp)
           /\ (Len(t) = 3 /\ ~t[1].ok /\ ~t[2].ok /\ ~t[3].ok)
              => (exc = "" /\ ret = PyStr(VisaIOErrorText))

(***************************************************************************)
(* C3: a real-mode send_command whose write, or whose query of the error   *)
(* code, failed on all three attempts returns False.                       *)
(***************************************************************************)
C3_NoSilentSuccess ==
    (/\ RealCall("send_command")
     /\ exc = ""
     /\ \/ Cardinality(FailedCalls("write")) = 3
        \/ Cardinality(FailedCalls("query")) = 3)
    => ret = PyBool(FALSE)

(***************************************************************************)
(* C4: in testflight mode the simulated position follows the moves: after  *)
(* a move that was accepted and narrated as moving to a position, the      *)
(* current position of the Motor is that position.                         *)
(***************************************************************************)
C4_SimulatedPositionTracksMoves ==
    (op.name = "move" /\ motor[op.m].testflight /\ exc = "")
    => \A i \in Logs(op.m, "moving") :
          NumEq(motor[op.m].current_position, trace[i].pos)

(***************************************************************************)
(* C5: the normalisation of the error code in send_command.  The code      *)
(* that decides the result of a real-mode send_command whose query was     *)
(* answered with r is r without its first character when that character    *)
(* is the axis id and r is longer than n characters, and r otherwise: the  *)
(* call returns True exactly when the code is "0", and reports another     *)
(* code, looked up in ERROR_CODES.                                         *)
(***************************************************************************)
DecidedByStripping(n) ==
    (/\ RealCall("send_command")
     /\ exc = ""
     /\ \E i \in Calls(op.m, "query") : trace[i].ok)
    => LET i == CHOOSE j \in Calls(op.m, "query") : trace[j].ok
           r == trace[i].resp
           code == IF <<r[1]>> = IntStr(motor[op.m].axis) /\ Len(r) > n
                   THEN Tail(r) ELSE r
           last == trace[Len(trace)]
       IN  /\ ret = PyBool(code = <<"0">>)
           /\ code # <<"0">>
              => /\ last.e = "log" /\ last.msg = "error code"
                 /\ last.code = code
                 /\ last.known = (code \in DOMAIN ERROR_CODES)

\* C5 as amended: the axis id is dropped from responses longer than two
\* characters only; a response of one or two characters is not stripped
C5_StrippedWhenLongerThanTwo == DecidedByStripping(2)

\* C5 as claimed: the axis id is dropped from every response longer than
\* one character
C5_StrippedWhenLongerThanOne == DecidedByStripping(1)

\* a response of three characters that starts with the axis id was
\* stripped, and one of two characters was not
C5_Witness ==
    /\ RealCall("send_command")
    /\ exc = ""
    /\ \E i \in Calls(op.m, "query") :
         /\ trace[i].ok
         /\ <<trace[i].resp[1]>> = IntStr(motor[op.m].axis)
         /\ Len(trace[i].resp) = 3
         /\ trace[Len(trace)].e = "log"
         /\ trace[Len(trace)].msg = "error code"
         /\ trace[Len(trace)].code = Tail(trace[i].resp)

(***************************************************************************)
(* C6: in Polarizer.set everything the linear polarizer does for its move  *)
(* comes first, then the one query of its position, then what the          *)
(* quarter-wave plate does; and the target the quarter-wave plate is       *)
(* asked to move to is p + 45, p being the position reported for the       *)
(* linear polarizer (the answer to the query parsed, or the simulated      *)
(* position), whatever degrees were requested.                             *)
(***************************************************************************)
C6_SetOrderAndTarget ==
    op.name = "set"
    => LET lin == motor["lin"]
           quart == motor["quart"]
           tp == {i \in Calls("lin", "query") :
                    trace[i].cmd = IntStr(lin.axis) \o TellPosition}
           linMove == {i \in DOMAIN trace : trace[i].m = "lin"} \ tp
           quartMove == {i \in DOMAIN trace : trace[i].m = "quart"}
           p == IF lin.testflight THEN lin.current_position
                ELSE LET i == CHOOSE j \in tp : TRUE
                     IN  ParseFloat(DropLast(trace[i].resp)).v
           target == NumAdd(p, PyInt(45))
       IN  /\ Cardinality(tp) <= 1
           /\ \A i \in linMove, j \in tp : i < j
           /\ \A j \in tp, k \in quartMove : j < k
           /\ \A i \in linMove, k \in quartMove : i < k
           /\ (~lin.testflight /\ quartMove # {})
              => \E j \in tp : trace[j].ok
           /\ (~lin.testflight /\ exc = "") => quartMove # {}
           /\ \A k \in quartMove :
                /\ trace[k].e = "write"
                   => trace[k].cmd = MoveText(quart.axis, target)
                /\ (trace[k].e = "log"
                    /\ trace[k].msg \in {"moving", "out of bounds"})
                   => trace[k].pos = target

\* the reported position 180.4 differs from the requested 10 degrees and
\* the quarter-wave plate was sent the move to 225.4
C6_Witness ==
    /\ op.name = "set"
    /\ exc = ""
    /\ \E j \in Calls("lin", "query"), k \in Calls("quart", "write"),
          i \in Calls("lin", "write") :
         /\ trace[j].resp = <<"1", "8", "0", ".", "4", "\n">>
         /\ op.args.degrees = PyInt(10)
         /\ trace[i].cmd = MoveText(1, PyInt(10))
         /\ trace[k].cmd = <<"2", "P", "A", "2", "2", "5", ".", "4", ";",
                             "2", "W", "S", "0">>
         /\ trace[k].ok

(***************************************************************************)
(* C7: no failure of the transport raises out of a call of a Motor or of   *)
(* a Polarizer.                                                            *)
(***************************************************************************)
C7_TransportFailureStaysLocal == exc # "VisaIOError"

(***************************************************************************)
(* C8: the writes of a Motor under construction are the "set velocity"     *)
(* command with its velocity and then the "set home search mode" command   *)
(* with 0, in that order, each followed by its query of the error code;    *)
(* a construction that completes in real mode has written both; and a      *)
(* position query or a move command is only ever issued by a Motor whose   *)
(* construction has completed.                                             *)
(***************************************************************************)
InitOrder(m, velocity) ==
    LET ws == Calls(m, "write")
        qs == {i \in Calls(m, "query") : trace[i].cmd = <<"T", "E", "?">>}
        VA == IntStr(Axis[m]) \o <<"V", "A">> \o IntStr(velocity)
        OM == IntStr(Axis[m]) \o <<"O", "M", "0">>
        first == CHOOSE i \in ws : \A j \in ws : i <= j
    IN  /\ \A i \in ws : trace[i].cmd \in {VA, OM}
        /\ ws # {} => trace[first].cmd = VA
        /\ \A i, j \in ws :
             (trace[i].cmd = VA /\ trace[j].cmd = OM)
             => (i < j /\ \E k \in qs : i < k /\ k < j)
        /\ \A i \in ws : \E k \in qs : i < k
        /\ \A i \in Calls(m, "query") : i \in qs
        /\ (exc = "" /\ ~op.args.testflight)
           => /\ \E i \in ws : trace[i].cmd = VA
              /\ \E i \in ws : trace[i].cmd = OM

C8_InitializationFirst ==
    /\ op.name = "Motor" => InitOrder(op.m, MotorVelocity)
    /\ op.name = "Polarizer"
       => /\ \A m \in Motors : InitOrder(m, PolarizerVelocity)
          /\ \A i \in Calls("lin", "write"), j \in Calls("quart", "write") :
               i < j
    /\ \A i \in DOMAIN trace :
         (/\ IsTransport(trace[i])
          /\ \/ Contains(trace[i].cmd, TellPosition)
             \/ Contains(trace[i].cmd, <<"P", "A">>))
         => (op.name \notin {"Motor", "Polarizer"} /\ Exists(trace[i].m))
    /\ op.name \notin {"idle", "Motor", "Polarizer", "set"} => Exists(op.m)
    /\ op.name = "set" => \A m \in Motors : Exists(m)

\* a Motor was built in real mode although its first write failed
C8_Witness ==
    /\ op.name = "Motor"
    /\ exc = ""
    /\ Exists(op.m)
    /\ ~op.args.testflight
    /\ Cardinality(Calls(op.m, "write")) = 4
    /\ trace[1].cmd = IntStr(Axis[op.m]) \o <<"V", "A", "4">>
    /\ ~trace[1].ok

(***************************************************************************)
(* C9: one call of write_command or of query_command makes at most three   *)
(* attempts, each with the command it was given; every attempt but the     *)
(* last failed; and the call ends whatever the transport does: on an       *)
(* instrument that has a transport it returns, after a success or after    *)
(* the third failure, and on the str that stands for an instrument it      *)
(* raises AttributeError without an attempt.                               *)
(***************************************************************************)
C9_RetryBound ==
    op.name \in {"write_command", "query_command"}
    => LET t == Transport
       IN  /\ Len(t) <= 3
           /\ \A i \in 1..Len(t) :
                /\ t[i].cmd = op.args.command
                /\ t[i].e = IF op.name = "write_command" THEN "write"
                            ELSE "query"
           /\ \A i \in 1..(Len(t) - 1) : ~t[i].ok
           /\ IF HasTransport(motor[op.m])
              THEN /\ exc = ""
                   /\ Len(t) >= 1
                   /\ t[Len(t)].ok \/ Len(t) = 3
              ELSE /\ exc = "AttributeError"
                   /\ t = << >>

\* a write_command returned after its third attempt failed
C9_Witness ==
    /\ op.name = "write_command"
    /\ exc = ""
    /\ Len(Transport) = 3
    /\ \A i \in 1..3 : ~Transport[i].ok

(***************************************************************************)
(* C10: an absolute move of a real-mode Motor to bounds[0] or to           *)
(* bounds[1] is accepted: the first thing the transport sees is the write  *)
(* of the "move to absolute position" command with that target.            *)
(***************************************************************************)
C10_InclusiveBounds ==
    (/\ RealCall("move")
     /\ op.args.mode = "absolute"
     /\ \/ NumEq(op.args.degrees, motor[op.m].bounds[1])
        \/ NumEq(op.args.degrees, motor[op.m].bounds[2]))
    => /\ Logs(op.m, "out of bounds") = {}
       /\ Transport # << >>
       /\ Transport[1].e = "write"
       /\ Transport[1].cmd = MoveText(motor[op.m].axis, op.args.degrees)

\* a move to the lower bound of [-180, 180] was sent
C10_Witness ==
    /\ RealCall("move")
    /\ op.args.mode = "absolute"
    /\ op.args.degrees = PyInt(-180)
    /\ motor[op.m].bounds = MotorBounds
    /\ Transport # << >>
    /\ Transport[1].cmd = MoveText(motor[op.m].axis, PyInt(-180))
    /\ Transport[1].ok

(***************************************************************************)
(* C11: the construction of a Motor or of a Polarizer in testflight mode,   *)
(* and a call of get_current_position, move, send_command,                 *)
(* send_ASCII_command, define_home or Polarizer.set on what was built,     *)
(* calls the transport not at all and raises nothing, whatever the         *)
(* instrument is; send_command returns True, whatever the command name;    *)
(* get_current_position returns the current position of the Motor, which   *)
(* the construction sets to 0.0.  (write_command and query_command are     *)
(* not among these calls: they have no testflight branch.)                 *)
(***************************************************************************)
Simulated ==
    CASE op.name = "idle" -> FALSE
      [] op.name \in {"write_command", "query_command"} -> FALSE
      [] op.name \in {"Motor", "Polarizer"} -> op.args.testflight
      [] op.name = "set" -> motor["lin"].testflight
      [] OTHER -> motor[op.m].testflight

C11_SimulatedModeNoIO ==
    Simulated
    => /\ Transport = << >>
       /\ exc = ""
       /\ op.name = "send_command" => ret = PyBool(TRUE)
       /\ op.name = "get_current_position"
          => ret = motor[op.m].current_position
       /\ op.name = "Motor"
          => motor[op.m].current_position = PyFloat(0)
       /\ op.name = "Polarizer"
          => \A m \in Motors :
                /\ motor[m].testflight
                /\ motor[m].current_position = PyFloat(0)

\* a testflight Motor whose instrument is a resource was given a command
\* with a name that is not in COMMANDS and returned True without a
\* transport call
C11_Witness ==
    /\ op.name = "send_command"
    /\ motor[op.m].testflight
    /\ HasTransport(motor[op.m])
    /\ op.args.command \notin DOMAIN COMMANDS
    /\ ret = PyBool(TRUE)
    /\ trace = << >>

(***************************************************************************)
(* C12: the decoding of the answer to the query of the error code, on      *)
(* every axis.  A real-mode send_command whose query was answered with     *)
(* "0" returns True and reports no error code.  Answered with a code of    *)
(* ERROR_CODES (none of them is "0") it returns False and reports that     *)
(* code, the description the table gives for it ("13": MOTOR NOT ENABLED)  *)
(* and the command it wrote.  When the code it decided on (C5) is neither  *)
(* "0" nor in the table it returns False and reports the code alone; the   *)
(* code is the answer itself when the answer has one or two characters.    *)
(***************************************************************************)
C12_Decoding ==
    (/\ RealCall("send_command")
     /\ exc = ""
     /\ \E i \in Calls(op.m, "query") : trace[i].ok)
    => LET i == CHOOSE j \in Calls(op.m, "query") : trace[j].ok
           r == trace[i].resp
           last == trace[Len(trace)]
           reported == last.e = "log" /\ last.msg = "error code"
           written == trace[CHOOSE j \in Calls(op.m, "write") : TRUE].cmd
       IN  /\ r = <<"0">>
              => (ret = PyBool(TRUE) /\ Logs(op.m, "error code") = {})
           /\ r \in DOMAIN ERROR_CODES
              => /\ ret = PyBool(FALSE)
                 /\ reported
                 /\ last.code = r
                 /\ last.known
                 /\ last.desc = ERROR_CODES[r]
                 /\ r = <<"1", "3">> => last.desc = "MOTOR NOT ENABLED"
                 /\ last.cmd = written
           /\ (reported /\ last.code \notin DOMAIN ERROR_CODES)
              => /\ ret = PyBool(FALSE)
                 /\ ~last.known
                 /\ last.desc = ""
                 /\ last.cmd = << >>
                 /\ last.code \in {r, Tail(r)}
                 /\ Len(r) <= 2 => last.code = r
           /\ ret = PyBool(FALSE) => reported
           /\ Cardinality(Logs(op.m, "error code")) <= 1

\* axis 1 answered "13", which was reported as MOTOR NOT ENABLED
C12_Witness ==
    /\ RealCall("send_command")
    /\ motor[op.m].axis = 1
    /\ ret = PyBool(FALSE)
    /\ \E i \in Calls(op.m, "query") :
         /\ trace[i].ok
         /\ trace[i].resp = <<"1", "3">>
    /\ trace[Len(trace)].e = "log"
    /\ trace[Len(trace)].msg = "error code"
    /\ trace[Len(trace)].code = <<"1", "3">>
    /\ trace[Len(trace)].desc = "MOTOR NOT ENABLED"

(***************************************************************************)
(* C13: when Polarizer.set in real mode has written the move of the        *)
(* linear polarizer and the position p it then reads gives a target        *)
(* p + 45 outside the bounds of the quarter-wave plate, the quarter-wave   *)
(* plate reports the target as out of bounds and calls the transport not   *)
(* at all, the linear polarizer calls the transport no more after the      *)
(* query of its position (nothing moves it back), and set returns.         *)
(***************************************************************************)
C13_NoRollback ==
    (/\ op.name = "set"
     /\ ~motor["lin"].testflight
     /\ \E i \in Calls("lin", "write") :
          trace[i].cmd = MoveText(motor["lin"].axis, op.args.degrees)
     /\ \E j \in Calls("lin", "query") :
          /\ trace[j].ok
          /\ trace[j].cmd = IntStr(motor["lin"].axis) \o TellPosition
          /\ ParseFloat(DropLast(trace[j].resp)).ok
          /\ Outside(motor["quart"].bounds,
                     NumAdd(ParseFloat(DropLast(trace[j].resp)).v,
                            PyInt(QuarterWaveOffset))))
    => LET j == CHOOSE k \in Calls("lin", "query") :
                  trace[k].cmd = IntStr(motor["lin"].axis) \o TellPosition
           target == NumAdd(ParseFloat(DropLast(trace[j].resp)).v,
                            PyInt(QuarterWaveOffset))
       IN  /\ Calls("quart", "write") = {}
           /\ Calls("quart", "query") = {}
           /\ \E k \in Logs("quart", "out of bounds") :
                trace[k].pos = target
           /\ Logs("quart", "moving") = {}
           /\ \A i \in DOMAIN trace :
                (IsTransport(trace[i]) /\ trace[i].m = "lin") => i <= j
           /\ exc = ""
           /\ ret = PyNone

\* the linear polarizer was sent to 10 and answered its write, the
\* position read was 366, and the quarter-wave plate rejected 411
C13_Witness ==
    /\ op.name = "set"
    /\ op.args.degrees = PyInt(10)
    /\ \E i \in Calls("lin", "write") :
         trace[i].ok /\ trace[i].cmd = MoveText(1, PyInt(10))
    /\ \E j \in Calls("lin", "query") :
         trace[j].ok /\ trace[j].resp = <<"3", "6", "6", "\n">>
    /\ \E k \in Logs("quart", "out of bounds") :
         trace[k].pos = PyFloat(822)
    /\ Calls("quart", "write") = {}

(***************************************************************************)
(* C14: the text a real-mode send_command writes, on every attempt, for a  *)
(* command name of COMMANDS: the axis id, the opcode of the name and the   *)
(* parameter as Python formats it, followed by ";", the axis id and "WS0"  *)
(* exactly when the name is one of the two move commands ("move to         *)
(* absolute position", "move to relative position"), and by nothing for    *)
(* every other name; and that write is the first call of the transport.    *)
(***************************************************************************)
MotionCommands == {MoveToAbsolutePosition, MoveToRelativePosition}

WireText(axis, command, parameter) ==
    LET base == IntStr(axis) \o COMMANDS[command] \o Format(parameter)
    IN  IF command \in MotionCommands
        THEN base \o <<";">> \o IntStr(axis) \o <<"W", "S", "0">>
        ELSE base

C14_WireGrammar ==
    (RealCall("send_command") /\ op.args.command \in DOMAIN COMMANDS)
    => /\ Calls(op.m, "write") # {}
       /\ trace[1].e = "write"
       /\ \A i \in Calls(op.m, "write") :
            trace[i].cmd = WireText(motor[op.m].axis, op.args.command,
                                    op.args.parameter)
       /\ (op.args.command = SearchForHome
           /\ op.args.parameter = PyStr(<< >>))
          => trace[1].cmd = IntStr(motor[op.m].axis) \o <<"O", "R">>
       /\ (op.args.command = MoveToRelativePosition
           /\ op.args.parameter = PyInt(0))
          => trace[1].cmd = IntStr(motor[op.m].axis) \o <<"P", "R", "0", ";">>
                               \o IntStr(motor[op.m].axis)
                               \o <<"W", "S", "0">>

\* axis 2 wrote "2PA12.5;2WS0" for a move command, and the write was
\* answered
C14_Witness ==
    /\ RealCall("send_command")
    /\ op.args.command = MoveToAbsolutePosition
    /\ op.args.parameter = PyFloat(25)
    /\ trace[1].e = "write"
    /\ trace[1].ok
    /\ trace[1].cmd = <<"2", "P", "A", "1", "2", ".", "5", ";", "2", "W",
                        "S", "0">>

(***************************************************************************)
(* C15: a send_command with a command name that is not in COMMANDS.  As    *)
(* claimed, every such call fails with the error of the unknown name       *)
(* (KeyError) and calls the transport not at all.                          *)
(***************************************************************************)
C15_UnknownOperationFails ==
    (op.name = "send_command" /\ op.args.command \notin DOMAIN COMMANDS)
    => (exc = "KeyError" /\ Transport = << >>)

\* C15 as amended: in real mode the call raises KeyError before any call
\* of the transport, and no other send_command raises KeyError; in
\* testflight mode the call returns True, the name not being looked up
C15_UnknownOperationRealMode ==
    op.name = "send_command"
    => /\ (~motor[op.m].testflight
           /\ op.args.command \notin DOMAIN COMMANDS)
          => (exc = "KeyError" /\ trace = << >> /\ ret = PyNone)
       /\ (motor[op.m].testflight
           /\ op.args.command \notin DOMAIN COMMANDS)
          => (exc = "" /\ trace = << >> /\ ret = PyBool(TRUE))
       /\ exc = "KeyError"
          => (~motor[op.m].testflight
              /\ op.args.command \notin DOMAIN COMMANDS)

\* a real-mode Motor was given a name that is not in COMMANDS, with a
\* parameter, and raised KeyError
C15_Witness ==
    /\ RealCall("send_command")
    /\ op.args.command \notin DOMAIN COMMANDS
    /\ op.args.parameter = PyInt(0)
    /\ exc = "KeyError"
    /\ trace = << >>

(***************************************************************************)
(* C16: define_home and its confirmation, which is the answer "Y" or "y"   *)
(* to the prompt.  With any other answer nothing is written to the         *)
(* transport and no outcome of a "define home" command is reported.  A     *)
(* write of define_home comes after the prompt and carries the axis id,    *)
(* "DH" and the degrees given.  With the confirmation, in real mode and    *)
(* the prompt reached, that one command is written: once, or again after   *)
(* each failure of the transport up to three times (C9), and answered at   *)
(* most once; and one outcome is reported when the call returns.  In       *)
(* testflight mode the command is given to send_command, which writes      *)
(* nothing.                                                                *)
(***************************************************************************)
Confirmed == op.args.choice \in {"Y", "y"}

HomeText(axis, degrees) == IntStr(axis) \o <<"D", "H">> \o Format(degrees)

C16_DefineHomeConfirmed ==
    op.name = "define_home"
    => LET ws == Calls(op.m, "write")
           prompt == Logs(op.m, "redefine")
           outcome == Logs(op.m, "home saved") \cup Logs(op.m, "home failed")
       IN  /\ ~Confirmed => (ws = {} /\ outcome = {})
           /\ \A i \in ws :
                /\ trace[i].cmd = HomeText(motor[op.m].axis, op.args.degrees)
                /\ \E j \in prompt : j < i
           /\ (Confirmed /\ ~motor[op.m].testflight /\ prompt # {})
              => /\ ws # {}
                 /\ Cardinality(ws) <= Attempts
                 /\ Cardinality({i \in ws : trace[i].ok}) <= 1
                 /\ \A i, j \in ws : (i < j) => ~trace[i].ok
           /\ (Confirmed /\ prompt # {} /\ exc = "")
              => Cardinality(outcome) = 1
           /\ motor[op.m].testflight
              => (ws = {} /\ (Confirmed => Logs(op.m, "home saved") # {}))
           /\ Cardinality(prompt) <= 1

\* the answer was "y", the command "1DH10" was written once and answered,
\* and the new home was reported as saved
C16_Witness ==
    /\ RealCall("define_home")
    /\ op.args.choice = "y"
    /\ op.args.degrees = PyInt(10)
    /\ Cardinality(Calls(op.m, "write")) = 1
    /\ \E i \in Calls(op.m, "write") :
         trace[i].ok /\ trace[i].cmd = <<"1", "D", "H", "1", "0">>
    /\ Logs(op.m, "home saved") # {}

(***************************************************************************)
(* C17: a relative move of a real-mode Motor queries the position once,    *)
(* before anything else, and an absolute move not at all.  When the query  *)
(* is answered with a position p the target is p + degrees: inside the     *)
(* bounds (the end points included) the command written is "move to        *)
(* absolute position" with that target, outside them nothing is written.   *)
(* So every write of a move, relative or absolute, is that command with a  *)
(* target inside the bounds of its Motor.                                  *)
(***************************************************************************)
C17_RelativeMove ==
    RealCall("move")
    => LET self == motor[op.m]
           tp == {i \in Calls(op.m, "query") :
                    trace[i].cmd = IntStr(self.axis) \o TellPosition}
           ws == Calls(op.m, "write")
           read == IF tp = {} THEN [ok |-> FALSE, v |-> PyNone]
                   ELSE LET i == CHOOSE j \in tp : TRUE
                        IN  IF trace[i].ok
                            THEN ParseFloat(DropLast(trace[i].resp))
                            ELSE [ok |-> FALSE, v |-> PyNone]
           target == IF op.args.mode = "absolute" THEN op.args.degrees
                     ELSE NumAdd(read.v, op.args.degrees)
       IN  /\ op.args.mode = "relative" => (tp = {1} /\ trace[1].e = "query")
           /\ op.args.mode = "absolute" => tp = {}
           /\ (op.args.mode = "relative" /\ ~read.ok) => ws = {}
           /\ (op.args.mode = "relative" /\ read.ok)
              => IF Inside(self.bounds, target)
                 THEN ws # {}
                 ELSE /\ ws = {}
                      /\ \E k \in Logs(op.m, "out of bounds") :
                           trace[k].pos = target
           /\ \A i \in ws :
                /\ trace[i].cmd = MoveText(self.axis, target)
                /\ Inside(self.bounds, target)

\* a relative move by -180 from the reported position 180.4 wrote the
\* move to 180.4 - 180, which is 0.4000000000000057
C17_Witness ==
    /\ RealCall("move")
    /\ op.args.mode = "relative"
    /\ op.args.degrees = PyInt(-180)
    /\ op.m = "lin"
    /\ trace[1].e = "query"
    /\ trace[1].resp = <<"1", "8", "0", ".", "4", "\n">>
    /\ \E i \in Calls(op.m, "write") :
         /\ trace[i].ok
         /\ trace[i].cmd =
              <<"1", "P", "A", "0", ".", "4", "0", "0", "0", "0", "0", "0",
                "0", "0", "0", "0", "0", "0", "0", "5", "7", ";", "1", "W",
                "S", "0">>

(***************************************************************************)
(* C18: the order of the steps of send_command in real mode, in every      *)
(* method that sends commands.  A send_command with a name of COMMANDS     *)
(* calls the transport first with the write of the text it built, up to    *)
(* three attempts, then with the query "TE?", up to three attempts, and    *)
(* with nothing else; the query is there also when every attempt of the    *)
(* write failed; and its result is decoded from the answer (C12).  In the  *)
(* methods that send several commands each write is followed, in the       *)
(* order of the transport calls, by its next attempt or by the query       *)
(* "TE?" of the same Motor, and each query "TE?" follows the write or the  *)
(* failed attempt of the query before it: no write and no query of the     *)
(* position comes between a write and its query of the error code.         *)
(***************************************************************************)
IsErrorQuery(ev) == ev.e = "query" /\ ev.cmd = COMMANDS[ReadErrorCode]

WriteThenErrorQuery(t) ==
    \A i \in 1..Len(t) :
       /\ t[i].e = "write"
          => /\ i < Len(t)
             /\ t[i + 1].m = t[i].m
             /\ \/ IsErrorQuery(t[i + 1])
                \/ /\ t[i + 1].e = "write"
                   /\ t[i + 1].cmd = t[i].cmd
                   /\ ~t[i].ok
       /\ IsErrorQuery(t[i])
          => /\ i > 1
             /\ t[i - 1].m = t[i].m
             /\ \/ t[i - 1].e = "write"
                \/ IsErrorQuery(t[i - 1]) /\ ~t[i - 1].ok

C18_PipelineOrder ==
    /\ op.name \in {"send_command", "move", "define_home", "Motor",
                     "Polarizer", "set"}
       => WriteThenErrorQuery(Transport)
    /\ (RealCall("send_command") /\ op.args.command \in DOMAIN COMMANDS)
       => LET t == Transport
              ws == {i \in 1..Len(t) : t[i].e = "write"}
              qs == {i \in 1..Len(t) : IsErrorQuery(t[i])}
          IN  /\ ws \cup qs = 1..Len(t)
              /\ \A i \in ws, j \in qs : i < j
              /\ Cardinality(ws) \in 1..Attempts
              /\ Cardinality(qs) \in 1..Attempts
              /\ \A i \in ws :
                   t[i].cmd = full_command(motor[op.m], op.args.command,
                                           op.args.parameter)
              /\ (\E j \in qs : t[j].ok /\ t[j].resp = <<"0">>)
                 => ret = PyBool(TRUE)
              /\ (exc = "" /\ \A j \in qs : ~t[j].ok) => ret = PyBool(FALSE)

\* the write failed on all three attempts and the query of the error code
\* came after the third and was answered
C18_Witness ==
    /\ RealCall("send_command")
    /\ Len(Transport) = 4
    /\ \A i \in 1..3 : Transport[i].e = "write" /\ ~Transport[i].ok
    /\ IsErrorQuery(Transport[4])
    /\ Transport[4].ok

(***************************************************************************)
(* C19: Polarizer.set in real mode never skips the quarter-wave plate.     *)
(* Whatever became of the move of the linear polarizer, once that move     *)
(* has returned and the position of the linear polarizer is asked for      *)
(* (and the answer, when there is one, is a position), the quarter-wave    *)
(* plate attempts its move: it writes the move command or reports its      *)
(* target as out of bounds.                                                *)
(***************************************************************************)
C19_SecondAxisNeverSkipped ==
    (/\ op.name = "set"
     /\ ~motor["lin"].testflight
     /\ \E j \in Calls("lin", "query") :
          /\ trace[j].cmd = IntStr(motor["lin"].axis) \o TellPosition
          /\ trace[j].ok => ParseFloat(DropLast(trace[j].resp)).ok)
    => \/ Calls("quart", "write") # {}
       \/ Logs("quart", "out of bounds") # {}

====
